---- MODULE Spec2Model ----
(***************************************************************************)
(* A model of static/js/home.js, the client-side script of PTC-Sim's home  *)
(* page: the PersistInfobox class, the locos-table click handler, the      *)
(* asynchronous content refresh with its render pass, and the refresh      *)
(* timer.  Every handler runs to completion (JavaScript is single-threaded)*)
(* so every handler is one action.                                         *)
(*                                                                         *)
(* Objects created by the render pass (a google.maps.Marker and the        *)
(* google.maps.InfoWindow its click listener closes over) live in the heap *)
(* `objs', one entry per marker/infobox pair.  Heap addresses carry no     *)
(* meaning, so a render pass renumbers the objects that are still          *)
(* referenced and drops the unreachable ones.                              *)
(***************************************************************************)
EXTENDS Naturals, Integers, Sequences, FiniteSets, TLC

\* ------------------------------------------------------------------ bounds
MaxInflight == 2          \* requests in flight at once
MaxWindow   == 10         \* seconds of simulated time observed after a timer (re)start

\* --------------------------------------------------------------- constants
AjaxTimeout == 1000       \* ms, the request timeout
refresh_interval == 5000  \* ms, the refresh interval the page starts with
time_icand  == 1          \* the simulation speed multiplier the page starts with
Step        == 1000       \* ms per slider unit (the sliders count seconds)

NULL  == <<>>             \* JavaScript null for a string-valued variable
NoRef == 0                \* JavaScript null for an object reference

\* Strings whose characters matter are sequences of characters.
Loco1001 == <<"L","o","c","o"," ","1","0","0","1">>
Loco1002 == <<"L","o","c","o"," ","1","0","0","2">>
Base3    == <<"B","a","s","e"," ","3">>
LocoStr  == <<"L","o","c","o">>

Locos  == <<Loco1001, Loco1002>>               \* the rows of the full table, in display order
Titles == {Loco1001, Loco1002, Base3}

\* String.prototype.includes
Includes(s, sub) ==
    \E i \in 1..(Len(s) + 1) :
        /\ i + Len(sub) - 1 <= Len(s)
        /\ SubSeq(s, i, i + Len(sub) - 1) = sub

Range(s) == {s[k] : k \in DOMAIN s}

\* Array.prototype.filter, keeping order
RECURSIVE SelectSeqBy(_, _)
SelectSeqBy(s, keep) ==
    IF s = <<>> THEN <<>>
    ELSE IF Head(s) \in keep THEN <<Head(s)>> \o SelectSeqBy(Tail(s), keep)
         ELSE SelectSeqBy(Tail(s), keep)

\* ----------------------------------------------------------- PersistInfobox
\* The methods act on st = [pi |-> the PersistInfobox fields, objs |-> the heap].

\* google.maps.InfoWindow.getMap(): the map the window is displayed on, if any
InfoWindow_getMap(st, ib) == st.objs[ib].open

\* google.maps.InfoWindow.open(map, anchor)
InfoWindow_open(st, ib, anchor) ==
    [st EXCEPT !.objs[ib].open = TRUE,
               !.objs[ib].anchor = anchor]

\* google.maps.InfoWindow.close()
InfoWindow_close(st, ib) ==
    [st EXCEPT !.objs[ib].open = FALSE,
               !.objs[ib].anchor = NoRef]

PI_new == [infobox |-> NoRef, marker |-> NoRef]

\* set() that stores the infobox and leaves the marker as it was
PI_set_infobox_only(st, infobox, marker) ==
    [st EXCEPT !.pi.infobox = infobox]

PI_set(st, infobox, marker) ==
    [st EXCEPT !.pi = [infobox |-> infobox, marker |-> marker]]

\* clear() that drops the infobox and keeps the marker
PI_clear_keeps_marker(st) ==
    [st EXCEPT !.pi.infobox = NoRef]

PI_clear(st) ==
    [st EXCEPT !.pi = [infobox |-> NoRef, marker |-> NoRef]]

PI_is_set(st) == ~(st.pi.infobox # NoRef)

PI_open(st) ==
    IF st.pi.infobox # NoRef
    THEN InfoWindow_open(st, st.pi.infobox, st.pi.marker)
    ELSE st

\* close() that hides the infobox and keeps the references
PI_close_keeps_refs(st) ==
    IF st.pi.infobox # NoRef
    THEN InfoWindow_close(st, st.pi.infobox)
    ELSE st

PI_close(st) ==
    IF st.pi.infobox # NoRef
    THEN PI_clear(InfoWindow_close(st, st.pi.infobox))
    ELSE st

\* is_for_device(device_name), by its truth value: the expression yields null
\* when no marker is referenced.
PI_is_for_device(st, device_name) ==
    st.pi.marker # NoRef /\ st.objs[st.pi.marker].title = device_name

\* is_loco() that is true of every marker
PI_is_loco_any_marker(st) == st.pi.marker # NoRef

PI_is_loco(st) ==
    st.pi.marker # NoRef /\ Includes(st.objs[st.pi.marker].title, LocoStr)


\* ------------------------------------------------------------- the heap
\* The objects that are still referenced: by the marker list, by the map
\* surface, by persist_infobox, or as the anchor of a displayed infobox.
Reachable(st, markers) ==
    LET direct == {i \in DOMAIN st.objs :
                      \/ i \in Range(markers)
                      \/ st.objs[i].map
                      \/ st.objs[i].open
                      \/ i = st.pi.infobox
                      \/ i = st.pi.marker}
    IN  (direct \cup {st.objs[i].anchor : i \in direct}) \ {NoRef}

\* The heap without its unreachable objects; the others keep their order and
\* move to the addresses 1..m, and every reference moves with them by
\* `offset'.  (The objects of `objs' then sit at 1..m, to be placed at
\* offset+1..offset+m by the caller.)
Collect(st, markers, offset) ==
    LET keep    == Reachable(st, markers)
        Rank(i) == Cardinality({j \in keep : j <= i})
        Ren(i)  == IF i = NoRef THEN NoRef ELSE offset + Rank(i)
        Old(k)  == CHOOSE i \in keep : Rank(i) = k
    IN  [objs |-> [k \in 1..Cardinality(keep) |->
                     [st.objs[Old(k)] EXCEPT !.anchor = Ren(@)]],
         pi   |-> [infobox |-> Ren(st.pi.infobox), marker |-> Ren(st.pi.marker)]]

\* ------------------------------------------------------------------ state
VARIABLES
    started,             \* home_start_async has run (slider listeners registered)
    curr_loco,           \* selected locos-table row, NULL when none
    persist_infobox,     \* the fields of the global PersistInfobox
    objs,                \* heap: marker/infobox pairs created by render passes
    status_map_markers,  \* references to the markers of the last rebuild
    curr_polylines,      \* the paths of the lines of the last rebuild
    map_polylines,       \* lines attached to the map surface: path -> count
    locos_table,         \* the DOM under #locos-table
    needs_txtshuffle,    \* the global the render pass collects the changed ids in
    inflight,            \* requests sent and not yet answered, in order of issue
    on_interval,         \* handle of the timer started last
    timers,              \* live setInterval timers: handle -> period, time to next fire
    refresh_val,         \* the refresh period shown in #refresh-val, in seconds
    time_icand_html,     \* the percentage shown in #time-icand
    last,                \* the handler that ran last, and for home_select_loco the
                         \* title the persisted popup had when it was called (history)
    overtaken,           \* late: how many of the oldest requests in flight were issued
                         \* before a request whose response has been rendered;
                         \* stale: the response rendered last was of such a request (history)
    sel_hist,            \* the last home_select_loco call: its argument, the selection
                         \* before it, whether the call before had the same argument (history)
    clock                \* time since the timer was (re)started (history)

vars == <<started, curr_loco, persist_infobox, objs, status_map_markers,
          curr_polylines, map_polylines, locos_table, needs_txtshuffle,
          inflight, on_interval,
          timers, refresh_val, time_icand_html, last, sel_hist, clock, overtaken>>

popup_vars == <<persist_infobox, objs, status_map_markers>>
line_vars  == <<curr_polylines, map_polylines>>
timer_vars == <<on_interval, timers, refresh_val>>

\* ----------------------------------------------------- the server's answers
Texts     == {"10 mph", "20 mph"}
OneText   == {"10 mph"}
Undefined == "undefined value"       \* what a lookup of an absent key yields
Paths     == {"path A"}
RefreshSliderValues == {2, 5}        \* positions of #refresh-range, seconds
TimeSliderValues    == {50, 100}     \* positions of #temporal-range, percent

CellId(loco) == IF loco = Loco1001 THEN "speed 1001" ELSE "speed 1002"

PayloadMarkers == { <<Loco1001, Base3>>, <<Loco1001, Loco1002, Base3>> }
DiffMarkers    == { <<Loco1001, Base3>> }
PayloadLines   == { <<"path A">> }

\* rows: the ids of the rows; cells: the shuffleable elements, in display
\* order; clicked: the row of class 'clicked'; shuffled: the elements the
\* shuffle effect was started on.
EmptyTable == [rows |-> {}, cells |-> <<>>, clicked |-> NULL, shuffled |-> <<>>]

\* The rows the server returns for a request: only the requested loco when
\* loco_name is set, every loco otherwise.
RowsFor(req) == IF req.loco_name = NULL THEN Locos ELSE <<req.loco_name>>

\* The response objects the server may send for a request, the cell texts
\* drawn from `texts' and the marker list from `markerlists'.
Payloads(req, texts, markerlists) ==
    LET rows == RowsFor(req)
        ids  == {CellId(Locos[k]) : k \in DOMAIN Locos}
    IN  { [shuffle_data   |-> sd,
           locos_table    |-> [rows    |-> Range(rows),
                               cells   |-> [k \in DOMAIN rows |->
                                              [id |-> CellId(rows[k]), text |-> sd[CellId(rows[k])]]],
                               clicked |-> NULL,
                               shuffled |-> <<>>],
           loco_connlines |-> ls,
           markers        |-> ms]
          : sd \in [ids -> texts], ls \in PayloadLines, ms \in markerlists }

\* ------------------------------------------------------------------- Init
Ran(op) == [op |-> op, popup |-> NULL]

\* The title of the marker persist_infobox refers to, NULL when it is empty.
PopupTitle(pi, heap) == IF pi.marker = NoRef THEN NULL ELSE heap[pi.marker].title

Init ==
    /\ started = FALSE
    /\ curr_loco = NULL
    /\ persist_infobox = PI_new
    /\ objs = <<>>
    /\ status_map_markers = <<>>
    /\ curr_polylines = <<>>
    /\ map_polylines = [p \in Paths |-> 0]
    /\ locos_table = EmptyTable
    /\ needs_txtshuffle = <<>>
    /\ inflight = <<>>
    /\ on_interval = NoRef
    /\ timers = <<>>
    /\ refresh_val = 0
    /\ time_icand_html = 0
    /\ last = Ran("load")
    /\ sel_hist = [name |-> NULL, pre |-> NULL, twice |-> FALSE]
    /\ clock = [phase |-> 0, t |-> 0, n |-> 0, changed |-> FALSE]
    /\ overtaken = [late |-> 0, stale |-> FALSE]

\* The state the PersistInfobox methods act on, and its write-back.
St == [pi |-> persist_infobox, objs |-> objs]

\* --------------------------------------------------------- _get_content_async
\* $.ajax(...): the request carries `sel', the selection at the time of the call.
CanSend == Len(inflight) < MaxInflight

\* $.ajax that aborts the requests still in flight
get_content_async_cancels_pending(sel) == inflight' = <<[loco_name |-> sel]>>

get_content_async(sel) == inflight' = Append(inflight, [loco_name |-> sel])

\* ----------------------------------------------------------- home_select_loco
\* a click handler that selects and never toggles off
select_loco_curr_no_toggle(cur, loco_name) == loco_name

select_loco_curr(cur, loco_name) == IF cur = loco_name THEN NULL ELSE loco_name

\* a click handler that leaves the popup alone
select_loco_popup_untouched(st, cur, loco_name) == st

select_loco_popup(st, cur, loco_name) ==
    IF cur = loco_name THEN st
    ELSE IF PI_is_loco(st) /\ ~PI_is_for_device(st, loco_name)
         THEN PI_close(st)
         ELSE st

home_select_loco(loco_name) ==
    /\ started
    /\ loco_name \in locos_table.rows
    /\ CanSend
    /\ LET st == Collect(select_loco_popup(St, curr_loco, loco_name),
                         status_map_markers, 0)
       IN  /\ curr_loco' = select_loco_curr(curr_loco, loco_name)
           /\ persist_infobox' = st.pi
           /\ objs' = st.objs
           /\ last' = [op |-> "select", popup |-> PopupTitle(persist_infobox, objs)]
    /\ get_content_async(select_loco_curr(curr_loco, loco_name))
    /\ sel_hist' = [name |-> loco_name, pre |-> curr_loco,
                    twice |-> (sel_hist.name = loco_name)]
    /\ UNCHANGED <<started, status_map_markers, line_vars, locos_table,
                   needs_txtshuffle, timer_vars, time_icand_html, clock, overtaken>>

\* ------------------------------------------------------- marker click listener
\* a listener that opens without closing the open infobox first
marker_click_no_close(st, i) ==
    IF InfoWindow_getMap(st, i)
    THEN PI_close(st)
    ELSE PI_open(PI_set(st, i, i))

marker_click(st, i) ==
    IF InfoWindow_getMap(st, i)
    THEN PI_close(st)
    ELSE PI_open(PI_set(PI_close(st), i, i))

MarkerClick(i) ==
    /\ i \in DOMAIN objs
    /\ objs[i].map                     \* only a marker on the map can be clicked
    /\ LET st == Collect(marker_click(St, i), status_map_markers, 0)
       IN  /\ persist_infobox' = st.pi
           /\ objs' = st.objs
           /\ last' = Ran("click")
    /\ UNCHANGED <<started, curr_loco, status_map_markers, line_vars, locos_table,
                   needs_txtshuffle, inflight, timer_vars, time_icand_html, sel_hist, clock,
                   overtaken>>


\* ------------------------------------------------- success: the render pass
\* data.shuffle_data[id]
Lookup(shuffle_data, id) ==
    IF id \in DOMAIN shuffle_data THEN shuffle_data[id] ELSE Undefined

\* The first $('.shuffleable').each loop: the ids, in display order, of the
\* elements whose text differs from the new value.
\* a loop that notes the unchanged elements
RECURSIVE txtshuffle_diff_inverted(_, _)
txtshuffle_diff_inverted(cells, shuffle_data) ==
    IF cells = <<>> THEN <<>>
    ELSE LET id   == Head(cells).id
             rest == txtshuffle_diff_inverted(Tail(cells), shuffle_data)
         IN  IF Head(cells).text = Lookup(shuffle_data, id)
             THEN <<id>> \o rest
             ELSE rest

RECURSIVE txtshuffle_diff(_, _)
txtshuffle_diff(cells, shuffle_data) ==
    IF cells = <<>> THEN <<>>
    ELSE LET id   == Head(cells).id
             rest == txtshuffle_diff(Tail(cells), shuffle_data)
         IN  IF Head(cells).text # Lookup(shuffle_data, id)
             THEN <<id>> \o rest
             ELSE rest

\* What $('.shuffleable') finds when the first loop runs: the loop stands
\* before $('#locos-table').html(...), so the elements of the table that is
\* displayed, `before', not those of the table the response brings, `after'.
\* a pass that replaces the table first
shuffleable_at_diff_after_replace(before, after) == after.cells

shuffleable_at_diff(before, after) == before.cells

\* document.getElementById(curr_loco).className = 'clicked'; the element is
\* null, and the assignment throws, when the table has no such row.
HighlightThrows(table, cur) == cur # NULL /\ cur \notin table.rows

Highlight(table, cur) ==
    IF cur # NULL THEN [table EXCEPT !.clicked = cur] ELSE table

\* The second $('.shuffleable').each loop: the elements that get shuffleLetters.
shuffle_effect(cells, needs) ==
    LET ids == [k \in DOMAIN cells |-> cells[k].id]
    IN  SelectSeqBy(ids, Range(needs))

\* status_map_markers.forEach(marker.setMap(null)).  Whether the library
\* keeps an infobox on display when its anchor leaves the map is not settled
\* by this code: `hides' is the library's choice.
\* a teardown that drops the references and leaves the markers on the map
teardown_markers_drops_refs_only(heap, markers, hides) == heap

teardown_markers(heap, markers, hides) ==
    [i \in DOMAIN heap |->
        LET m == IF i \in Range(markers) THEN [heap[i] EXCEPT !.map = FALSE] ELSE heap[i]
        IN  IF hides /\ m.open /\ m.anchor \in Range(markers)
            THEN [m EXCEPT !.open = FALSE, !.anchor = NoRef]
            ELSE m]

\* curr_polylines.forEach(pline.setMap(null))
RECURSIVE teardown_polylines(_, _)
teardown_polylines(onmap, plines) ==
    IF plines = <<>> THEN onmap
    ELSE teardown_polylines(
             [onmap EXCEPT ![Head(plines)] = IF @ > 0 THEN @ - 1 ELSE 0],
             Tail(plines))

\* $.each(data.loco_connlines, new google.maps.Polyline({..., map: status_map}))
RECURSIVE create_polylines(_, _)
create_polylines(onmap, paths) ==
    IF paths = <<>> THEN onmap
    ELSE create_polylines([onmap EXCEPT ![Head(paths)] = @ + 1], Tail(paths))

\* $.each(data.status_map.markers, ...): a marker on the map and its closed
\* infobox per entry, at the addresses 1..n; the objects that are still
\* referenced follow them.
create_markers(st, titles) ==
    LET n   == Len(titles)
        old == Collect(st, <<>>, n)
    IN  [old EXCEPT
           !.objs = [k \in 1..(n + Len(old.objs)) |->
                       IF k <= n
                       THEN [title |-> titles[k], map |-> TRUE,
                             open |-> FALSE, anchor |-> NoRef]
                       ELSE old.objs[k - n]]]

\* a render pass without its last statement
reopen_skipped(st) == st

\* persist_infobox.open(status_map), the last statement of the render pass
reopen(st) == PI_open(st)

\* What the success callback leaves behind for a response object `data'.
\* When the highlight throws, the callback ends there: the table has been
\* replaced and nothing after it has run.
render(data, hides) ==
    LET needs == txtshuffle_diff(shuffleable_at_diff(locos_table, data.locos_table),
                                 data.shuffle_data)
    IN  IF HighlightThrows(data.locos_table, curr_loco)
        THEN [needs    |-> needs,
              table    |-> data.locos_table,
              st       |-> St,
              markers  |-> status_map_markers,
              plines   |-> curr_polylines,
              onmap    |-> map_polylines]
        ELSE LET table == Highlight(data.locos_table, curr_loco)
                 torn  == [St EXCEPT !.objs = teardown_markers(objs, status_map_markers, hides)]
                 built == create_markers(torn, data.markers)
             IN  [needs    |-> needs,
                  table    |-> [table EXCEPT !.shuffled = shuffle_effect(table.cells, needs)],
                  st       |-> reopen(built),
                  markers  |-> [k \in 1..Len(data.markers) |-> k],
                  plines   |-> data.loco_connlines,
                  onmap    |-> create_polylines(
                                   teardown_polylines(map_polylines, curr_polylines),
                                   data.loco_connlines)]

\* A response arrives for the k-th request in flight.
Answered(k) == inflight' = SubSeq(inflight, 1, k - 1) \o SubSeq(inflight, k + 1, Len(inflight))

\* The success callback has run for the k-th request in flight: the requests
\* issued before it and still in flight have been overtaken.
Rendered(k) ==
    overtaken' = [late  |-> IF k <= overtaken.late THEN overtaken.late - 1 ELSE k - 1,
                  stale |-> k <= overtaken.late]

\* The k-th request in flight has ended without a render pass.
Dropped(k) ==
    overtaken' = [overtaken EXCEPT !.late = IF k <= @ THEN @ - 1 ELSE @]

\* The success callback runs on the response object `data'.
SuccessWith(k, data, hides) ==
    /\ k \in DOMAIN inflight
    /\ Answered(k)
    /\ Rendered(k)
    /\ \E r \in {render(data, hides)} :
           /\ needs_txtshuffle' = r.needs
           /\ locos_table' = r.table
           /\ persist_infobox' = r.st.pi
           /\ objs' = r.st.objs
           /\ status_map_markers' = r.markers
           /\ curr_polylines' = r.plines
           /\ map_polylines' = r.onmap
           /\ last' = Ran("success")
    /\ UNCHANGED <<started, curr_loco, timer_vars, time_icand_html, sel_hist, clock>>

\* The library's choice matters only when an infobox is on display.
LibraryChoices == IF \E i \in DOMAIN objs : objs[i].open THEN BOOLEAN ELSE {FALSE}

ResponseSuccess(k, texts, markerlists) ==
    \E data \in Payloads(inflight[k], texts, markerlists) : \E hides \in LibraryChoices :
        SuccessWith(k, data, hides)

\* success with data == 'error': logged, and the callback returns.
\* a callback that goes on to replace the table with the html of a string
success_error_sentinel_falls_through ==
    /\ locos_table' = EmptyTable
    /\ UNCHANGED <<needs_txtshuffle, popup_vars, line_vars>>

success_error_sentinel == UNCHANGED <<locos_table, needs_txtshuffle, popup_vars, line_vars>>

ResponseErrorSentinel(k) ==
    /\ k \in DOMAIN inflight
    /\ success_error_sentinel
    /\ last' = Ran("error_sentinel")
    /\ Answered(k)
    /\ Dropped(k)
    /\ UNCHANGED <<started, curr_loco, timer_vars, time_icand_html, sel_hist, clock>>

\* The error callback; textStatus is "timeout" after AjaxTimeout ms, or another
\* transport status.
ajax_error == UNCHANGED <<locos_table, needs_txtshuffle, popup_vars, line_vars>>

ResponseError(k, textStatus) ==
    /\ k \in DOMAIN inflight
    /\ ajax_error
    /\ last' = Ran(textStatus)
    /\ Answered(k)
    /\ Dropped(k)
    /\ UNCHANGED <<started, curr_loco, timer_vars, time_icand_html, sel_hist, clock>>


\* ------------------------------------------------------------ refresh timer
\* setInterval: the new handle is one not in use.
NewHandle(tm) == CHOOSE h \in 1..(Cardinality(DOMAIN tm) + 1) : h \notin DOMAIN tm

\* clearInterval(handle); clearing null or a dead handle does nothing.
clearInterval(tm, handle) == [h \in DOMAIN tm \ {handle} |-> tm[h]]

setInterval(tm, period) ==
    [h \in DOMAIN tm \cup {NewHandle(tm)} |->
        IF h \in DOMAIN tm THEN tm[h] ELSE [period |-> period, left |-> period]]

\* _async_interval(interval): starts the timer on the timer table tm,
\* shows the period in seconds, returns the handle.
async_interval(tm, interval) ==
    [timers |-> setInterval(tm, interval),
     handle |-> NewHandle(tm),
     disp_val |-> interval \div 1000]

\* The observation window after a (re)start of the timer, in ms.  clock.t
\* counts the time since the (re)start and stops once it is past the window;
\* clock.n counts the ticks inside the window.
Window == MaxWindow * Step

Restarted == [phase |-> 0, t |-> 0, n |-> 0, changed |-> TRUE]

\* home_start_async(): registers the listeners, fetches once, starts the timer
\* at the position of #refresh-range and shows the positions of both sliders.
\* The sliders start at the values of the globals.
home_start_async ==
    /\ ~started
    /\ started' = TRUE
    /\ CanSend
    /\ get_content_async(curr_loco)
    /\ LET value == refresh_interval \div Step
           a     == async_interval(timers, value * Step)
       IN  /\ timers' = a.timers
           /\ on_interval' = a.handle
           /\ refresh_val' = value
           /\ time_icand_html' = time_icand * 100
    /\ last' = Ran("start")
    /\ clock' = [Restarted EXCEPT !.changed = FALSE]
    /\ UNCHANGED <<curr_loco, popup_vars, line_vars, locos_table, needs_txtshuffle, sel_hist,
                   overtaken>>

\* refresh_slider.oninput
\* a handler that starts the new timer without stopping the old one
refresh_slider_timers_no_clear(tm, handle, new_val) ==
    async_interval(tm, new_val)

refresh_slider_timers(tm, handle, new_val) ==
    async_interval(clearInterval(tm, handle), new_val)

RefreshSliderInput(value) ==
    /\ started
    /\ value \in RefreshSliderValues
    /\ LET a == refresh_slider_timers(timers, on_interval, value * Step)
       IN  /\ timers' = a.timers
           /\ on_interval' = a.handle
           /\ refresh_val' = a.disp_val
    /\ last' = Ran("refresh_slider")
    /\ clock' = Restarted
    /\ UNCHANGED <<started, curr_loco, popup_vars, line_vars, locos_table,
                   needs_txtshuffle, inflight, time_icand_html, sel_hist, overtaken>>

\* time_slider.oninput: pushes the value to the session, shows the percentage.
\* a handler that also drops the selection
TimeSliderInput_drops_selection(value) ==
    /\ started
    /\ value \in TimeSliderValues
    /\ time_icand_html' = value
    /\ curr_loco' = NULL
    /\ last' = Ran("time_slider")
    /\ UNCHANGED <<started, popup_vars, line_vars, locos_table,
                   needs_txtshuffle, inflight, timer_vars, sel_hist, clock, overtaken>>

TimeSliderInput(value) ==
    /\ started
    /\ value \in TimeSliderValues
    /\ time_icand_html' = value
    /\ last' = Ran("time_slider")
    /\ UNCHANGED <<started, curr_loco, popup_vars, line_vars, locos_table,
                   needs_txtshuffle, inflight, timer_vars, sel_hist, clock, overtaken>>

\* A setInterval timer repeats: when its callback has run, the next run is
\* one period away.
\* a timer that runs its callback once (setTimeout)
interval_next_once(tm, h) == clearInterval(tm, h)

interval_next(tm, h) == [tm EXCEPT ![h].left = tm[h].period]

\* The setInterval callback of timer h, run when its period has elapsed.
TimerFire(h) ==
    /\ h \in DOMAIN timers
    /\ timers[h].left = 0
    /\ CanSend
    /\ get_content_async(curr_loco)
    /\ timers' = interval_next(timers, h)
    /\ last' = Ran("tick")
    /\ clock' = [clock EXCEPT !.n = IF clock.changed /\ clock.t <= Window THEN @ + 1 ELSE @]
    /\ UNCHANGED <<started, curr_loco, popup_vars, line_vars, locos_table,
                   needs_txtshuffle, on_interval, refresh_val, time_icand_html, sel_hist,
                   overtaken>>

\* Time passes: d ms, no more than the time to the next tick, so that a timer
\* that is due fires before more time passes.
TimeToDue == CHOOSE d \in {timers[h].left : h \in DOMAIN timers} :
                 \A h \in DOMAIN timers : d <= timers[h].left

Advance(d) ==
    /\ DOMAIN timers # {}
    /\ d > 0
    /\ \A h \in DOMAIN timers : timers[h].left >= d
    /\ timers' = [h \in DOMAIN timers |-> [timers[h] EXCEPT !.left = @ - d]]
    /\ clock' = [clock EXCEPT
                   !.phase = (@ + d) % timers[on_interval].period,
                   !.t     = IF clock.changed /\ @ <= Window THEN @ + d ELSE @]
    /\ UNCHANGED <<started, curr_loco, popup_vars, line_vars, locos_table,
                   needs_txtshuffle, inflight, on_interval, refresh_val, time_icand_html, last,
                   sel_hist, overtaken>>

\* ---------------------------------------------------------- specifications
\* The page in use: row selections, marker clicks, timer ticks and responses.
\* Time moves from one due tick to the next.
Next ==
    \/ home_start_async
    \/ \E n \in Titles : home_select_loco(n)
    \/ \E i \in DOMAIN objs : MarkerClick(i)
    \/ \E k \in DOMAIN inflight : ResponseSuccess(k, OneText, PayloadMarkers)
    \/ \E k \in DOMAIN inflight : ResponseErrorSentinel(k)
    \/ \E k \in DOMAIN inflight : \E ts \in {"timeout", "error"} : ResponseError(k, ts)
    \/ \E h \in DOMAIN timers : TimerFire(h)
    \/ Advance(TimeToDue)

Spec == Init /\ [][Next]_vars

\* The control panel in use: the two sliders, the timer and its requests,
\* against a server that does not answer with content.  Time moves in steps
\* of one second.
NextTimer ==
    \/ home_start_async
    \/ \E v \in RefreshSliderValues : RefreshSliderInput(v)
    \/ \E v \in TimeSliderValues : TimeSliderInput(v)
    \/ \E h \in DOMAIN timers : TimerFire(h)
    \/ Advance(Step)
    \/ \E k \in DOMAIN inflight : ResponseErrorSentinel(k)
    \/ \E k \in DOMAIN inflight : \E ts \in {"timeout", "error"} : ResponseError(k, ts)

SpecTimer == Init /\ [][NextTimer]_vars

\* The table in use: row selections, timer ticks and responses whose cell
\* texts vary, with one marker list, nobody clicking on the map and no
\* transport failure.
NextDiff ==
    \/ home_start_async
    \/ \E n \in Titles : home_select_loco(n)
    \/ \E k \in DOMAIN inflight : ResponseSuccess(k, Texts, DiffMarkers)
    \/ \E k \in DOMAIN inflight : ResponseErrorSentinel(k)
    \/ \E h \in DOMAIN timers : TimerFire(h)
    \/ Advance(TimeToDue)

SpecDiff == Init /\ [][NextDiff]_vars

\* The render pass in full, within one refresh period: row selections, marker
\* clicks and responses whose cell texts vary, with one marker list and a
\* server that always answers with content.
NextRender ==
    \/ home_start_async
    \/ \E n \in Titles : home_select_loco(n)
    \/ \E i \in DOMAIN objs : MarkerClick(i)
    \/ \E k \in DOMAIN inflight : ResponseSuccess(k, Texts, DiffMarkers)

SpecRender == Init /\ [][NextRender]_vars

\* Every handler of the page, with one row to select, one position to move
\* each slider to, one marker list and one cell text.
NextFrame ==
    \/ home_start_async
    \/ home_select_loco(Loco1001)
    \/ \E i \in DOMAIN objs : MarkerClick(i)
    \/ \E k \in DOMAIN inflight : ResponseSuccess(k, OneText, DiffMarkers)
    \/ \E k \in DOMAIN inflight : ResponseErrorSentinel(k)
    \/ \E k \in DOMAIN inflight : ResponseError(k, "timeout")
    \/ RefreshSliderInput(2)
    \/ TimeSliderInput(50)
    \/ \E h \in DOMAIN timers : TimerFire(h)
    \/ Advance(TimeToDue)

SpecFrame == Init /\ [][NextFrame]_vars

\* Polling: the timer and its requests against a server that answers with
\* content, with the error string, or not at all, and a user who changes the
\* refresh period at most once.  Time moves in steps of one second.
NextPoll ==
    \/ home_start_async
    \/ (~clock.changed /\ \E v \in RefreshSliderValues : RefreshSliderInput(v))
    \/ \E h \in DOMAIN timers : TimerFire(h)
    \/ Advance(Step)
    \/ \E k \in DOMAIN inflight : ResponseSuccess(k, OneText, DiffMarkers)
    \/ \E k \in DOMAIN inflight : ResponseErrorSentinel(k)
    \/ \E k \in DOMAIN inflight : ResponseError(k, "timeout")

\* The browser runs a due timer callback, time passes, and every request ends:
\* after AjaxTimeout ms at the latest the error callback runs with "timeout".
PollFairness ==
    /\ WF_vars(\E h \in DOMAIN timers : TimerFire(h))
    /\ WF_vars(Advance(Step))
    /\ WF_vars(\E k \in DOMAIN inflight : ResponseError(k, "timeout"))

SpecPoll == Init /\ [][NextPoll]_vars /\ PollFairness


\* ================================================================= claims
\* The infoboxes on display.
Displayed == {i \in DOMAIN objs : objs[i].open}

\* The persisted popup is on display.
PopupShown == persist_infobox.infobox # NoRef /\ objs[persist_infobox.infobox].open

LocoTitles == {Locos[k] : k \in DOMAIN Locos}

\* C1: in every reachable state at most one infobox is displayed on the map.
C1_AtMostOnePopup == Cardinality(Displayed) <= 1

\* C1 witness: after a refresh, a popup opened before it is the one on display.
C1_Witness ==
    /\ last.op = "success"
    /\ Cardinality(Displayed) = 1
    /\ PopupShown
    /\ persist_infobox.marker \notin Range(status_map_markers)

\* C2: a marker click is a toggle, a rebuilt marker being identified with its
\* predecessor of the same title: clicking the marker whose popup is displayed
\* leaves nothing displayed and nothing persisted; clicking another marker
\* leaves exactly the clicked marker's popup displayed and persisted.
C2_ClickToggles ==
    [][\A i \in DOMAIN objs :
         MarkerClick(i) =>
            IF \E j \in Displayed : objs[j].title = objs[i].title
            THEN Displayed' = {} /\ persist_infobox' = PI_new
            ELSE /\ Cardinality(Displayed') = 1
                 /\ PopupShown'
                 /\ PopupTitle(persist_infobox, objs)' = objs[i].title]_vars

\* C3: a popup persisted and displayed when a successful response is rendered,
\* whose title is among the markers of the payload, is still persisted and
\* displayed, under the same title, at the end of the render pass.
C3_PopupSurvivesRefresh ==
    [][(PopupShown /\ last'.op = "success") =>
         \A k \in DOMAIN inflight :
           \A data \in Payloads(inflight[k], OneText, PayloadMarkers) : \A hides \in LibraryChoices :
              ( /\ PopupTitle(persist_infobox, objs) \in Range(data.markers)
                /\ SuccessWith(k, data, hides) )
              => ( /\ PopupShown'
                   /\ PopupTitle(persist_infobox, objs)' = PopupTitle(persist_infobox, objs) )]_vars

\* C3 witness: a render pass has rebuilt the markers, the popup opened on a
\* marker of the previous generation is displayed and a new marker carries its title.
C3_Witness ==
    /\ last.op = "success"
    /\ PopupShown
    /\ persist_infobox.marker \notin Range(status_map_markers)
    /\ \E m \in Range(status_map_markers) :
          objs[m].title = PopupTitle(persist_infobox, objs)

\* C4 as stated: selecting a loco row that is not the current selection while
\* the persisted popup is open on a base-station marker closes the popup and
\* clears the persistence within the call.
C4_SelectClosesBasePopup ==
    [][\A n \in LocoTitles :
         ( /\ home_select_loco(n)
           /\ curr_loco # n
           /\ PopupShown
           /\ PopupTitle(persist_infobox, objs) \notin LocoTitles )
         => (persist_infobox' = PI_new /\ Displayed' = {})]_vars

\* C4 amended: selecting a loco row that is not the current selection while the
\* persisted popup is open on a base-station marker leaves that popup displayed
\* and persisted when the call returns, its refresh request in flight.
C4_SelectKeepsBasePopup ==
    [][\A n \in LocoTitles :
         ( /\ home_select_loco(n)
           /\ curr_loco # n
           /\ PopupShown
           /\ PopupTitle(persist_infobox, objs) \notin LocoTitles )
         => ( /\ PopupShown'
              /\ PopupTitle(persist_infobox, objs)' = PopupTitle(persist_infobox, objs)
              /\ inflight' = Append(inflight, [loco_name |-> n]) )]_vars

\* C4 witness: "Loco 1001" has just been selected over an open "Base 3" popup.
C4_Witness ==
    /\ last = [op |-> "select", popup |-> Base3]
    /\ curr_loco = Loco1001
    /\ PopupShown
    /\ PopupTitle(persist_infobox, objs) = Base3
    /\ inflight # <<>>
    /\ inflight[Len(inflight)].loco_name = Loco1001

\* C5: when home_select_loco(name) sets a new selection and the persisted
\* popup is anchored at a loco marker of another title, the popup is closed and
\* persist_infobox cleared by the time the request is issued; a persisted
\* popup whose title is name is left open.
C5_SelectClosesOtherLocoPopup ==
    [][\A n \in LocoTitles :
         (home_select_loco(n) /\ curr_loco # n /\ persist_infobox.marker # NoRef)
         => LET title == PopupTitle(persist_infobox, objs)
            IN  /\ (title \in LocoTitles /\ title # n)
                     => ( /\ persist_infobox' = PI_new
                          /\ Displayed' = {}
                          /\ inflight' = Append(inflight, [loco_name |-> n]) )
                /\ (title = n)
                     => ( /\ PopupShown'
                          /\ PopupTitle(persist_infobox, objs)' = n )]_vars

\* C5 witness: a row has just been selected while another loco's popup was
\* persisted; nothing is persisted any more and the request is in flight.
C5_Witness ==
    /\ last.op = "select"
    /\ last.popup \in LocoTitles
    /\ curr_loco \in LocoTitles
    /\ last.popup # curr_loco
    /\ persist_infobox = PI_new
    /\ inflight # <<>>
    /\ inflight[Len(inflight)].loco_name = curr_loco


\* C6 as stated: two consecutive calls of home_select_loco with the same name
\* leave curr_loco at none, whatever the selection was before the first call.
C6_TwiceGivesNone ==
    [][\A n \in LocoTitles :
         (home_select_loco(n) /\ sel_hist.name = n) => curr_loco' = NULL]_vars

\* C6 amended: two consecutive calls of home_select_loco with the same name n
\* leave curr_loco at none when the selection before the first call was not n,
\* and at n when it was n.
C6_TwiceRestores ==
    [][\A n \in LocoTitles :
         (home_select_loco(n) /\ sel_hist.name = n)
         => curr_loco' = (IF sel_hist.pre = n THEN n ELSE NULL)]_vars

\* C6 witness: the same row has been clicked twice in a row and nothing is selected.
C6_Witness ==
    /\ last.op = "select"
    /\ sel_hist.twice
    /\ sel_hist.name \in LocoTitles
    /\ sel_hist.pre = sel_hist.name
    /\ curr_loco = NULL

\* C7: a response that is a transport timeout or the string "error" changes
\* neither the table, the markers, the connection lines, the persisted popup
\* nor the selection.
C7_FailureSwallowed ==
    [][\A k \in DOMAIN inflight :
         (ResponseErrorSentinel(k) \/ ResponseError(k, "timeout"))
         => UNCHANGED <<locos_table, status_map_markers, objs, curr_polylines,
                        map_polylines, persist_infobox, curr_loco>>]_vars

\* C7 witness: the error sentinel has been swallowed with a table, markers,
\* a line, a selection and an open popup in place.
C7_Witness ==
    /\ last.op = "error_sentinel"
    /\ locos_table.rows # {}
    /\ status_map_markers # <<>>
    /\ curr_polylines # <<>>
    /\ curr_loco # NULL
    /\ PopupShown

\* C8: after home_start_async, and after every change of the refresh period,
\* exactly one timer is live and it runs at the period shown; the change
\* issues no fetch and starts the new timer with a full period to go; a tick
\* comes from that timer at a multiple of the period after its start; and the
\* ticks in the window after a change number window / period.
C8_PeriodChange ==
    [][ /\ started' => /\ DOMAIN timers' = {on_interval'}
                       /\ timers'[on_interval'].period = refresh_val' * Step
        /\ \A v \in RefreshSliderValues :
              RefreshSliderInput(v)
              => /\ inflight' = inflight
                 /\ timers'[on_interval'] = [period |-> v * Step, left |-> v * Step]
        /\ \A h \in DOMAIN timers :
              TimerFire(h) => (h = on_interval /\ clock.phase = 0)
        /\ (clock'.changed /\ clock'.t > Window)
              => clock'.n = Window \div (refresh_val' * Step) ]_vars

\* C8 witness: the period was changed to 2 s, the 10 s window after the change
\* is over and 5 ticks fell into it.
C8_Witness ==
    /\ clock.changed
    /\ refresh_val = 2
    /\ clock.t > Window
    /\ clock.n = 5

\* C9: the diff of a successful response holds, in display order, exactly the
\* ids of the displayed shuffleable elements whose text differs from the new
\* value; it is empty, and nothing is animated, when no text differs.
C9_DiffExact ==
    [][(last'.op = "success") =>
         \A k \in DOMAIN inflight :
           \A data \in Payloads(inflight[k], Texts, DiffMarkers) : \A hides \in LibraryChoices :
              SuccessWith(k, data, hides)
              => LET cells   == locos_table.cells
                     changed == {j \in DOMAIN cells :
                                    cells[j].text # data.shuffle_data[cells[j].id]}
                     need    == needs_txtshuffle'
                 IN  /\ Range(need) = {cells[j].id : j \in changed}
                     /\ Len(need) = Cardinality(changed)
                     /\ \A a, b \in DOMAIN need :
                           a < b => \E i, j \in changed :
                                       i < j /\ cells[i].id = need[a] /\ cells[j].id = need[b]
                     /\ (changed = {}) => (need = <<>> /\ locos_table'.shuffled = <<>>)]_vars

\* C9 witness: a render pass found one of the two displayed values changed and
\* animated that element only.
C9_Witness ==
    /\ last.op = "success"
    /\ Len(locos_table.cells) = 2
    /\ needs_txtshuffle = <<"speed 1002">>
    /\ locos_table.shuffled = <<"speed 1002">>

\* C10: from every reachable state, close() twice leaves what close() once
\* leaves: nothing referenced and the referenced infobox hidden; on the empty
\* state close() changes nothing.
C10_CloseIdempotent ==
    LET once  == PI_close(St)
        twice == PI_close(once)
    IN  /\ twice = once
        /\ once.pi = PI_new
        /\ \A i \in DOMAIN objs :
              once.objs[i].open <=> (objs[i].open /\ i # persist_infobox.infobox)
        /\ persist_infobox = PI_new => once = St

\* C10 witness: a click on the marker of the open popup has closed it.
C10_Witness ==
    /\ last.op = "click"
    /\ persist_infobox = PI_new
    /\ Displayed = {}
    /\ status_map_markers # <<>>

\* C11: in every reachable state, set(infobox, marker) on any infobox and marker
\* followed by clear() leaves is_for_device(name) false for every name, the
\* title of the marker just set included.
C11_ClearForgetsDevice ==
    \A ib, m \in DOMAIN objs :
        LET cleared == PI_clear(PI_set(St, ib, m))
        IN  /\ cleared.pi = PI_new
            /\ \A name \in Titles \cup {objs[m].title} :
                   ~PI_is_for_device(cleared, name)

\* C11 witness: a click has set persist_infobox on a marker, is_for_device
\* holds of its title, and no longer holds once clear() has run.
C11_Witness ==
    /\ last.op = "click"
    /\ persist_infobox.marker # NoRef
    /\ PI_is_for_device(St, Loco1002)
    /\ ~PI_is_for_device(PI_clear(St), Loco1002)

\* C12: in every reachable state persist_infobox.infobox and
\* persist_infobox.marker are both set or both null.
C12_BothOrNeither ==
    (persist_infobox.infobox = NoRef) <=> (persist_infobox.marker = NoRef)

\* C12 witness: both references are set, to the infobox and the marker of one
\* entry of a previous rebuild, after a later render pass.
C12_Witness ==
    /\ last.op = "success"
    /\ persist_infobox.infobox # NoRef
    /\ persist_infobox.marker = persist_infobox.infobox
    /\ ~objs[persist_infobox.marker].map
    /\ curr_loco # NULL

\* C13: requests are neither de-duplicated nor cancelled.  A timer tick or a
\* selection click adds its request behind the ones in flight, however many
\* there are; a request leaves only when its own response arrives; and when the
\* response of a request is rendered after the response of a request issued
\* later, the table ends up showing the rows of the older request.
C13_NoDedupNoCancel ==
    [][ /\ \A h \in DOMAIN timers :
             (last'.op = "tick" /\ TimerFire(h))
                => inflight' = Append(inflight, [loco_name |-> curr_loco])
        /\ \A n \in LocoTitles :
             (last'.op = "select" /\ home_select_loco(n))
                => inflight' = Append(inflight, [loco_name |-> curr_loco'])
        /\ Len(inflight') < Len(inflight)
             => /\ last'.op \in {"success", "error_sentinel", "timeout", "error"}
                /\ \E k \in DOMAIN inflight : Answered(k)
        /\ (last'.op = "success" /\ Len(inflight') < Len(inflight) /\ overtaken'.stale)
             => \E k \in 1..overtaken.late :
                   /\ Answered(k)
                   /\ locos_table'.rows = Range(RowsFor(inflight[k])) ]_vars

\* C13 witness: a request for every loco was issued, "Loco 1001" was selected
\* while it was in flight, the response of the selection's request was
\* rendered first and the response of the older request after it: the table
\* shows every loco although one is selected and nothing is in flight.
C13_Witness ==
    /\ last.op = "success"
    /\ overtaken.stale
    /\ inflight = <<>>
    /\ curr_loco = Loco1001
    /\ locos_table.rows = LocoTitles

\* The ids, in display order, of the cells of `cells' whose text is not the
\* value the response has for them.
Changed(cells, data) ==
    SelectSeqBy([j \in DOMAIN cells |-> cells[j].id],
                {cells[j].id : j \in {i \in DOMAIN cells :
                                        cells[i].text # data.shuffle_data[cells[i].id]}})

\* C14 as stated: in a successful render pass the table is replaced before the
\* diff is computed, so the diff compares the new values with the cells of the
\* table the response brought.
C14_TableBeforeDiff ==
    [][(last'.op = "success") =>
         \A k \in DOMAIN inflight :
           \A data \in Payloads(inflight[k], Texts, DiffMarkers) : \A hides \in LibraryChoices :
              SuccessWith(k, data, hides)
              => needs_txtshuffle' = Changed(locos_table'.cells, data)]_vars

\* C14 amended: a successful render pass runs diff, table replacement,
\* highlight, shuffle animation, map rebuild, popup reopen, in that order.
\* The diff compares the new values with the cells displayed before the
\* replacement; the table on display afterwards is the one of the response;
\* the animation runs on the cells of the new table; a pass that stops at the
\* highlight has replaced the table and left the map alone; and a pass that
\* runs to its end has rebuilt the markers and then put the persisted popup on
\* display, whatever the teardown did to it.
C14_DiffBeforeTable ==
    [][(last'.op = "success" /\ inflight' # inflight) =>
         /\ \E k \in DOMAIN inflight :
              \E data \in Payloads(inflight[k], Texts, DiffMarkers) :
                 /\ Answered(k)
                 /\ locos_table'.cells = data.locos_table.cells
                 /\ locos_table'.rows = data.locos_table.rows
         /\ \A k \in DOMAIN inflight :
              \A data \in Payloads(inflight[k], Texts, DiffMarkers) :
                 (Answered(k) /\ locos_table'.cells = data.locos_table.cells)
                 => \A hides \in LibraryChoices :
                      SuccessWith(k, data, hides)
                      => /\ needs_txtshuffle' = Changed(locos_table.cells, data)
                         /\ IF curr_loco # NULL /\ curr_loco \notin data.locos_table.rows
                            THEN /\ locos_table'.shuffled = <<>>
                                 /\ UNCHANGED <<status_map_markers, objs, persist_infobox,
                                                curr_polylines, map_polylines>>
                            ELSE /\ locos_table'.shuffled =
                                       SelectSeqBy([j \in DOMAIN data.locos_table.cells |->
                                                       data.locos_table.cells[j].id],
                                                   Range(needs_txtshuffle'))
                                 /\ \A m \in Range(status_map_markers') :
                                       objs'[m].map /\ ~objs'[m].open
                                 /\ persist_infobox.infobox # NoRef => PopupShown']_vars

\* C14 witness: a render pass found a displayed value changed, animated the
\* cell of the new table, rebuilt the markers and left the popup of a marker
\* of the previous generation on display.
C14_Witness ==
    /\ last.op = "success"
    /\ needs_txtshuffle # <<>>
    /\ locos_table.shuffled = needs_txtshuffle
    /\ PopupShown
    /\ ~objs[persist_infobox.marker].map
    /\ status_map_markers # <<>>

\* C15: at the end of a successful render pass in which a popup is persisted,
\* persist_infobox.marker is one of the markers in status_map_markers, on the
\* map, and not a marker the rebuild tore down.
C15_AnchorIsCurrentMarker ==
    (last.op = "success" /\ persist_infobox.marker # NoRef)
    => /\ persist_infobox.marker \in Range(status_map_markers)
       /\ objs[persist_infobox.marker].map

\* C16: with a server that returns the requested loco's row alone when
\* loco_name is set and every row when it is null, a successful response
\* rendered while curr_loco is set brings a table that holds the row curr_loco:
\* the highlight finds its element, marks it 'clicked', and the pass runs to
\* its end.
C16_HighlightFindsRow ==
    (last.op = "success" /\ curr_loco # NULL)
    => /\ curr_loco \in locos_table.rows
       /\ locos_table.clicked = curr_loco

\* The markers attached to the map surface.
MarkersOnMap == {i \in DOMAIN objs : objs[i].map}

\* The number of entries of the list `plines' that are the path p.
CountOf(plines, p) == Cardinality({j \in DOMAIN plines : plines[j] = p})

\* C17: after every step the markers on the map are exactly the ones in
\* status_map_markers, each once, and the lines on the map exactly the ones in
\* curr_polylines; a render pass that reaches the map rebuild detaches every
\* marker of the list it found and leaves one marker per entry of its payload,
\* in the payload's order, and one line per path of its payload; a pass that
\* stops before the rebuild leaves the map as it found it.
C17_NoDuplicateRenderings ==
    [][ /\ MarkersOnMap' = Range(status_map_markers')
        /\ Cardinality(Range(status_map_markers')) = Len(status_map_markers')
        /\ \A p \in Paths : map_polylines'[p] = CountOf(curr_polylines', p)
        /\ (last'.op = "success" /\ inflight' # inflight)
             => \E k \in DOMAIN inflight :
                  \E data \in Payloads(inflight[k], OneText, PayloadMarkers) :
                     /\ Answered(k)
                     /\ locos_table'.rows = data.locos_table.rows
                     /\ IF curr_loco # NULL /\ curr_loco \notin data.locos_table.rows
                        THEN UNCHANGED <<status_map_markers, objs, curr_polylines, map_polylines>>
                        ELSE /\ [j \in DOMAIN status_map_markers' |->
                                    objs'[status_map_markers'[j]].title] = data.markers
                             /\ curr_polylines' = data.loco_connlines
                             /\ Cardinality(MarkersOnMap') = Len(data.markers)
                             /\ Len(objs') <= Len(data.markers) + 1
                             /\ \A i \in DOMAIN objs' :
                                   objs'[i].map \/ i = persist_infobox'.marker ]_vars

\* C17 witness: a render pass has replaced three markers by two; the two are
\* on the map, and the only other object left is the detached marker of the
\* persisted popup.
C17_Witness ==
    /\ last.op = "success"
    /\ Len(status_map_markers) = 2
    /\ MarkersOnMap = {1, 2}
    /\ Len(objs) = 3
    /\ objs[3].title = Loco1002
    /\ ~objs[3].map
    /\ persist_infobox.marker = 3
    /\ map_polylines["path A"] = 1

\* A request has just ended in a timeout or in the error string.
FetchFailed == last.op \in {"timeout", "error_sentinel"}

\* C18: a request that ends in a timeout or in the error string leaves the
\* timer table and on_interval as they are, the timer of on_interval live; and
\* after every such failure a timer tick issues a new request.
C18_FailureKeepsPolling ==
    /\ [][(last'.op \in {"timeout", "error_sentinel"} /\ inflight' # inflight)
            => /\ UNCHANGED <<timers, on_interval>>
               /\ on_interval' \in DOMAIN timers'
               /\ timers'[on_interval'].period = refresh_val' * Step]_vars
    /\ (FetchFailed ~> (last.op = "tick" /\ inflight # <<>>))

\* C18 witness: the request has timed out, nothing is in flight, and the
\* timer is live with part of its period still to go.
C18_Witness ==
    /\ last.op = "timeout"
    /\ inflight = <<>>
    /\ on_interval \in DOMAIN timers
    /\ timers[on_interval].left > 0
    /\ timers[on_interval].left < timers[on_interval].period

\* C19: a step that changes curr_loco is a call of home_select_loco; a timer
\* tick, a success, error-string or timeout response, a marker click and both
\* slider handlers leave curr_loco as it is.
C19_OnlySelectChangesSelection ==
    [][ /\ (curr_loco' # curr_loco) => \E n \in Titles : home_select_loco(n)
        /\ (last'.op \in {"tick", "success", "error_sentinel", "timeout", "click",
                           "refresh_slider", "time_slider"}) => curr_loco' = curr_loco ]_vars

\* C19 witness: with "Loco 1001" selected and its popup open, responses have
\* been rendered, the refresh period changed, and the time slider has just
\* been moved; the selection is still "Loco 1001".
C19_Witness ==
    /\ last.op = "time_slider"
    /\ curr_loco = Loco1001
    /\ locos_table.clicked = Loco1001
    /\ refresh_val = 2
    /\ time_icand_html = 50
    /\ PopupShown

\* C20: is_set() is true exactly when persist_infobox references an infobox,
\* and false on the empty state.
C20_IsSetMeansReferenced ==
    PI_is_set(St) <=> (persist_infobox.infobox # NoRef)

====
